---- MODULE Spec2Model ----
(***************************************************************************)
(* The eighth-period signup models of intranet/apps/eighth/models.py:      *)
(* blocks, activities, rooms, scheduled activities and signups, and        *)
(* EighthScheduledActivity.add_user, the admission controller.             *)
(***************************************************************************)
EXTENDS Integers, FiniteSets, Sequences, TLC

VARIABLES
    room,        \* EighthRoom rows:              name -> [capacity]
    activity,    \* EighthActivity rows:          name -> [rooms, presign, one_a_day, sticky, deleted]
    block,       \* EighthBlock rows:             name -> [date, block_letter, locked]
    scheduled,   \* EighthScheduledActivity rows: name -> [block, activity, capacity, cancelled]
    signups,     \* EighthSignup rows:            set of [id, user, scheduled_activity]
    procs,       \* the add_user calls in progress: process -> [pc, user, scheduled_activity, found]
    last         \* how the last add_user call ended: the exception it raised, or
                 \* what its completion step did; in the program of the blocks,
                 \* the last call and the blocks it returned

vars == <<room, activity, block, scheduled, signups, procs, last>>

config == <<room, activity, block, scheduled>>

----------------------------------------------------------------------------
(* Bounds of the model. *)

\* Capacities of rooms and capacity overrides are drawn from -1 .. MaxCapacity.
MaxCapacity == 1

None == "None"

Students == {"u1", "u2"}
Admins == {"adm"}
Users == Students \cup Admins

Rooms == {"r1", "r2"}
Activities == {"a1", "a2"}
Blocks == {"b1", "b2"}
\* unique_together (block, activity): one scheduled activity per pair
Occurrences == {"x1", "x2", "x3"}
OccBlock == [x1 |-> "b1", x2 |-> "b2", x3 |-> "b2"]
OccActivity == [x1 |-> "a1", x2 |-> "a1", x3 |-> "a2"]

MinutesPerDay == 24 * 60
\* datetime.datetime.combine(date, datetime.time(0, 0, 0))
Midnight(date) == date * MinutesPerDay

\* presign_period = datetime.timedelta(days=2)
PresignDays == 2

FirstDate == 3
Dates == {FirstDate, FirstDate + 1}
\* what datetime.datetime.now() may return, in minutes
Times == {Midnight(FirstDate - PresignDays) - 1,
          Midnight(FirstDate - PresignDays)}

Capacities == (-1) .. MaxCapacity

\* request.user, request.user.is_eighth_admin and "force" in request.GET
is_eighth_admin(u) == u \in Admins
\* request=None
NoRequest == [none |-> TRUE]
Requests == {NoRequest} \cup [user : Users, GET_force : BOOLEAN]

\* a null (<<>>) or set (<<n>>) SmallIntegerField
NoCapacity == <<>>

----------------------------------------------------------------------------
(* Pure helpers. *)

RECURSIVE SumCapacity(_)
SumCapacity(rs) ==
    IF rs = {} THEN 0
    ELSE LET r == CHOOSE x \in rs : TRUE
         IN  room[r].capacity + SumCapacity(rs \ {r})

\* EighthActivity.capacity
capacity(a) ==
    LET all_rooms == activity[a].rooms
    IN  IF Cardinality(all_rooms) = 0 THEN -1 ELSE SumCapacity(all_rooms)

\* get_true_capacity testing "if self.capacity": an override of 0 is unset
get_true_capacity_ZeroIsUnset(s) ==
    IF scheduled[s].capacity # NoCapacity /\ scheduled[s].capacity # <<0>>
    THEN scheduled[s].capacity[1]
    ELSE capacity(scheduled[s].activity)

\* EighthScheduledActivity.get_true_capacity
get_true_capacity(s) ==
    IF scheduled[s].capacity # NoCapacity THEN scheduled[s].capacity[1]
    ELSE capacity(scheduled[s].activity)

\* self.eighthsignup_set
eighthsignup_set(s) == {r \in signups : r.scheduled_activity = s}

\* is_full that never counts the signups
is_full_NoCount(s) == FALSE

\* is_full comparing with > instead of >=
is_full_OffByOne(s) ==
    LET cap == get_true_capacity(s)
    IN  IF cap # -1
        THEN Cardinality(eighthsignup_set(s)) > cap
        ELSE FALSE

\* EighthScheduledActivity.is_full
is_full(s) ==
    LET cap == get_true_capacity(s)
    IN  IF cap # -1
        THEN Cardinality(eighthsignup_set(s)) >= cap
        ELSE FALSE

\* is_too_early_to_signup comparing with <= instead of <
is_too_early_to_signup_Inclusive(s, t) ==
    LET activity_date == Midnight(block[scheduled[s].block].date)
        presign_period == PresignDays * MinutesPerDay
    IN  t <= activity_date - presign_period

\* EighthScheduledActivity.is_too_early_to_signup
is_too_early_to_signup(s, t) ==
    LET activity_date == Midnight(block[scheduled[s].block].date)
        presign_period == PresignDays * MinutesPerDay
    IN  t < activity_date - presign_period

\* the force parameter of the request honoured whoever sent it
Forced_AnyActor(request, force) ==
    IF request # NoRequest
    THEN force \/ request.GET_force
    ELSE force

\* add_user, lines 308-310: the effective force flag
Forced(request, force) ==
    IF request # NoRequest
    THEN force \/ (request.GET_force /\ is_eighth_admin(request.user))
    ELSE force

\* add_user, lines 341-344
in_a_stickie(user, s) ==
    Cardinality({r \in eighthsignup_set(s) :
                    /\ r.user = user
                    /\ activity[scheduled[r.scheduled_activity].activity].sticky}) # 0

\* add_user, lines 350-355
in_act(user, s) ==
    Cardinality({r \in eighthsignup_set(s) :
                    /\ ~(scheduled[r.scheduled_activity].block = scheduled[s].block)
                    /\ r.user = user
                    /\ block[scheduled[r.scheduled_activity].block].date
                         = block[scheduled[s].block].date
                    /\ scheduled[r.scheduled_activity].activity = scheduled[s].activity}) # 0

\* the lock of the block checked outside "if not force"
Checks_LockNotForced(user, s, request, force, t) ==
    IF block[scheduled[s].block].locked THEN "BlockLocked"
    ELSE IF Forced(request, force) THEN "ok"
    ELSE IF request # NoRequest /\ user # request.user /\ ~is_eighth_admin(request.user)
         THEN "SignupForbidden"
    ELSE IF scheduled[s].cancelled THEN "ScheduledActivityCancelled"
    ELSE IF activity[scheduled[s].activity].deleted THEN "ActivityDeleted"
    ELSE IF is_full(s) THEN "ActivityFull"
    ELSE IF activity[scheduled[s].activity].presign /\ is_too_early_to_signup(s, t)
         THEN "Presign"
    ELSE IF in_a_stickie(user, s) THEN "Sticky"
    ELSE IF activity[scheduled[s].activity].one_a_day /\ in_act(user, s) THEN "OneADay"
    ELSE "ok"

\* add_user, lines 312-357: the exception the checks raise, or "ok"
Checks(user, s, request, force, t) ==
    IF Forced(request, force) THEN "ok"
    ELSE IF request # NoRequest /\ user # request.user /\ ~is_eighth_admin(request.user)
         THEN "SignupForbidden"
    ELSE IF block[scheduled[s].block].locked THEN "BlockLocked"
    ELSE IF scheduled[s].cancelled THEN "ScheduledActivityCancelled"
    ELSE IF activity[scheduled[s].activity].deleted THEN "ActivityDeleted"
    ELSE IF is_full(s) THEN "ActivityFull"
    ELSE IF activity[scheduled[s].activity].presign /\ is_too_early_to_signup(s, t)
         THEN "Presign"
    ELSE IF in_a_stickie(user, s) THEN "Sticky"
    ELSE IF activity[scheduled[s].activity].one_a_day /\ in_act(user, s) THEN "OneADay"
    ELSE "ok"

\* add_user, lines 308-338: the exception the checks before the sticky
\* query raise, or "ok"
ChecksToPresign(user, s, request, force, t) ==
    IF Forced(request, force) THEN "ok"
    ELSE IF request # NoRequest /\ user # request.user /\ ~is_eighth_admin(request.user)
         THEN "SignupForbidden"
    ELSE IF block[scheduled[s].block].locked THEN "BlockLocked"
    ELSE IF scheduled[s].cancelled THEN "ScheduledActivityCancelled"
    ELSE IF activity[scheduled[s].activity].deleted THEN "ActivityDeleted"
    ELSE IF is_full(s) THEN "ActivityFull"
    ELSE IF activity[scheduled[s].activity].presign /\ is_too_early_to_signup(s, t)
         THEN "Presign"
    ELSE "ok"

\* the lookup by scheduled activity instead of by block
Existing_ByScheduledActivity(user, s) ==
    {r \in signups : r.user = user /\ r.scheduled_activity = s}

\* EighthSignup.objects.get(user=user, scheduled_activity__block=self.block)
Existing(user, s) ==
    {r \in signups : r.user = user
                     /\ scheduled[r.scheduled_activity].block = scheduled[s].block}

\* unique_together (user, scheduled_activity) of EighthSignup
Duplicate(rows, id, user, s) ==
    \E r \in rows : r.id # id /\ r.user = user /\ r.scheduled_activity = s

\* the save repoints every row of the signup's user
Save_AllRowsOfUser(rows, id, s) ==
    LET user == (CHOOSE r \in rows : r.id = id).user
    IN  {IF r.user = user THEN [r EXCEPT !.scheduled_activity = s] ELSE r : r \in rows}

\* the repointed signup is never saved
Save_Forgotten(rows, id, s) == rows

\* existing_signup.scheduled_activity = self; existing_signup.save()
Save(rows, id, s) ==
    {IF r.id = id THEN [r EXCEPT !.scheduled_activity = s] ELSE r : r \in rows}

\* The primary key of a new row: a key no row has.  Rows are never deleted,
\* so the rows of the user in the block number the user's keys in that block.
NewId(rows, user, s) ==
    <<user, scheduled[s].block,
      Cardinality({r \in rows : r.user = user
                                /\ scheduled[r.scheduled_activity].block
                                     = scheduled[s].block}) + 1>>

\* EighthSignup.objects.create(user=user, scheduled_activity=self)
Create(rows, id, user, s) ==
    rows \cup {[id |-> id, user |-> user, scheduled_activity |-> s]}

\* the completion step without the lookup: it always creates a row
Complete_CreateOnly(user, s) ==
    LET id == NewId(signups, user, s)
    IN  IF Duplicate(signups, id, user, s)
        THEN [outcome |-> "IntegrityError", rows |-> signups]
        ELSE [outcome |-> "ok", rows |-> Create(signups, id, user, s)]

\* add_user, lines 365-374: [outcome, rows] of the completion step
Complete(user, s) ==
    LET found == Existing(user, s)
    IN  IF Cardinality(found) > 1
        THEN [outcome |-> "MultipleObjectsReturned", rows |-> signups]
        ELSE IF Cardinality(found) = 1
        THEN LET e == CHOOSE r \in found : TRUE
             IN  IF Duplicate(signups, e.id, user, s)
                 THEN [outcome |-> "IntegrityError", rows |-> signups]
                 ELSE [outcome |-> "ok", rows |-> Save(signups, e.id, s)]
        ELSE LET id == NewId(signups, user, s)
             IN  IF Duplicate(signups, id, user, s)
                 THEN [outcome |-> "IntegrityError", rows |-> signups]
                 ELSE [outcome |-> "ok", rows |-> Create(signups, id, user, s)]

\* the completion step run before the checks
add_user_CompleteFirst(user, s, request, force, t) ==
    LET c == Checks(user, s, request, force, t)
        done == Complete(user, s)
    IN  IF c # "ok"
        THEN [outcome |-> c, rows |-> done.rows]
        ELSE done

\* add_user as a whole: [outcome, rows]
add_user(user, s, request, force, t) ==
    LET c == Checks(user, s, request, force, t)
    IN  IF c # "ok"
        THEN [outcome |-> c, rows |-> signups]
        ELSE Complete(user, s)

----------------------------------------------------------------------------
(* The sequential program: one add_user call at a time. *)

\* before the first call
NoCall == None

\* the scheduled activity the user's signup of that block points at
Previous(user, s) ==
    LET found == Existing(user, s)
    IN  IF Cardinality(found) = 1
        THEN (CHOOSE r \in found : TRUE).scheduled_activity
        ELSE None

\* The flags that close a scheduled activity to signups.
ClosingFlags == {"locked", "cancelled", "deleted", "presign"}

\* The rows the admission controller reads.  b1 = (FirstDate, A) and
\* b2 = (FirstDate, B); x1 = (b1, a1), x2 = (b2, a1), x3 = (b2, a2).
\* Any of the closing flags are set, on b2, x3 and a2; the
\* sticky and one-a-day policies are set on all activities at once; x3
\* overrides its capacity, x1 and x2 are unlimited.
Config(closed, sticky, one_a_day, cap) ==
    /\ room = [r \in Rooms |-> [capacity |-> -1]]
    /\ activity = [a \in Activities |->
                     [rooms |-> {},
                      presign |-> (a = "a2" /\ "presign" \in closed),
                      deleted |-> (a = "a2" /\ "deleted" \in closed),
                      sticky |-> sticky,
                      one_a_day |-> one_a_day]]
    /\ block = [b \in Blocks |->
                  [date |-> FirstDate,
                   block_letter |-> IF b = "b1" THEN "A" ELSE "B",
                   locked |-> (b = "b2" /\ "locked" \in closed)]]
    /\ scheduled = [s \in Occurrences |->
                      [block |-> OccBlock[s], activity |-> OccActivity[s],
                       capacity |-> IF s = "x3" THEN cap ELSE NoCapacity,
                       cancelled |-> (s = "x3" /\ "cancelled" \in closed)]]

InitConfig ==
    \E closed \in SUBSET ClosingFlags, sticky, one_a_day \in BOOLEAN,
       cap \in {<<c>> : c \in 0 .. MaxCapacity} :
        Config(closed, sticky, one_a_day, cap)

\* the processes that run add_user concurrently
Procs == {"p1", "p2"}
Idle == [pc |-> "idle", user |-> None, scheduled_activity |-> None, found |-> <<>>]

Init ==
    /\ InitConfig
    /\ signups = {}
    /\ procs = [p \in Procs |-> Idle]
    /\ last = NoCall

\* whether the call reaches is_too_early_to_signup, which reads the clock:
\* it does when a reading before every presign period makes it raise Presign
ReadsClock(user, s, request, force) ==
    /\ activity[scheduled[s].activity].presign
    /\ Checks(user, s, request, force, Midnight(0)) \in {"Presign"}

AddUser(user, s, request, force, t) ==
    LET res == add_user(user, s, request, force, t)
    IN  /\ signups' = res.rows
        /\ last' = IF res.outcome # "ok" THEN res.outcome
                    ELSE IF Previous(user, s) = None THEN "created"
                    ELSE IF Previous(user, s) = s THEN "resaved"
                    ELSE "repointed"
        /\ UNCHANGED <<config, procs>>

\* the clock readings of a call: one when the call reads the clock
Readings(user, s, request, force) ==
    IF ReadsClock(user, s, request, force) THEN Times ELSE {Midnight(0)}

Next ==
    \E user \in Students, s \in Occurrences, request \in Requests, force \in BOOLEAN :
        \E t \in Readings(user, s, request, force) :
            AddUser(user, s, request, force, t)

Spec == Init /\ [][Next]_vars

\* The sequential program when no call is forced.
NextNoForce ==
    \E user \in Students, s \in Occurrences, request \in Requests :
        \E t \in Readings(user, s, request, FALSE) :
            /\ ~Forced(request, FALSE)
            /\ AddUser(user, s, request, FALSE, t)

SpecNoForce == Init /\ [][NextNoForce]_vars

----------------------------------------------------------------------------
(* The sequential program with rooms: the rooms have any capacities, a2    *)
(* is held in any of the rooms, and x3 overrides its capacity or not.      *)

InitCapacity ==
    /\ \E capacities \in [Rooms -> Capacities], rooms \in SUBSET Rooms,
          override \in {NoCapacity} \cup {<<c>> : c \in Capacities} :
          /\ room = [r \in Rooms |-> [capacity |-> capacities[r]]]
          /\ activity = [a \in Activities |->
                           [rooms |-> IF a = "a2" THEN rooms ELSE {},
                            presign |-> FALSE, deleted |-> FALSE,
                            sticky |-> FALSE, one_a_day |-> FALSE]]
          /\ block = [b \in Blocks |->
                        [date |-> FirstDate,
                         block_letter |-> IF b = "b1" THEN "A" ELSE "B",
                         locked |-> FALSE]]
          /\ scheduled = [s \in Occurrences |->
                            [block |-> OccBlock[s], activity |-> OccActivity[s],
                             capacity |-> IF s = "x3" THEN override ELSE NoCapacity,
                             cancelled |-> FALSE]]
    /\ signups = {}
    /\ procs = [p \in Procs |-> Idle]
    /\ last = NoCall

\* add_user(user), with or without force=True
NextCapacity ==
    \E user \in Students, s \in Occurrences, force \in BOOLEAN :
        \E t \in Readings(user, s, NoRequest, force) :
            AddUser(user, s, NoRequest, force, t)

SpecCapacity == InitCapacity /\ [][NextCapacity]_vars

----------------------------------------------------------------------------
(* The concurrent program: every process runs add_user calls, and the      *)
(* calls interleave at their accesses to the EighthSignup table: the count *)
(* of is_full (line 285), the sticky query (341-344), the one-a-day query  *)
(* (350-355), the lookup (366-368), the write (370 or 373).  The other     *)
(* checks read rows that no call writes.                                   *)

\* the scheduled activities of the concurrent calls: those of block b2
ConcurrentOccurrences == {s \in Occurrences : OccBlock[s] = "b2"}

InitConcurrent ==
    /\ \E sticky, one_a_day \in BOOLEAN, cap \in {<<c>> : c \in 0 .. MaxCapacity} :
          Config({}, sticky, one_a_day, cap)
    /\ signups = {}
    /\ procs = [p \in Procs |-> Idle]
    /\ last = NoCall

\* lines 308-338: the call starts and runs its checks up to the presign
\* check, of which is_full reads the table; a forced call goes on to the
\* lookup
Begin(p, user, s, request, force, t) ==
    /\ procs[p].pc = "idle"
    /\ LET c == ChecksToPresign(user, s, request, force, t)
       IN  IF c # "ok"
           THEN /\ last' = c
                /\ UNCHANGED procs
           ELSE /\ procs' = [procs EXCEPT ![p] =
                               [pc |-> IF Forced(request, force) THEN "get" ELSE "sticky",
                                user |-> user,
                                scheduled_activity |-> s, found |-> <<>>]]
                /\ UNCHANGED last
    /\ UNCHANGED <<config, signups>>

\* lines 341-346: the sticky query
StickyQuery(p) ==
    /\ procs[p].pc = "sticky"
    /\ IF in_a_stickie(procs[p].user, procs[p].scheduled_activity)
       THEN /\ last' = "Sticky"
            /\ procs' = [procs EXCEPT ![p] = Idle]
       ELSE /\ procs' = [procs EXCEPT ![p].pc = "one_a_day"]
            /\ UNCHANGED last
    /\ UNCHANGED <<config, signups>>

\* lines 349-357: the one-a-day query
OneADayQuery(p) ==
    /\ procs[p].pc = "one_a_day"
    /\ IF /\ activity[scheduled[procs[p].scheduled_activity].activity].one_a_day
          /\ in_act(procs[p].user, procs[p].scheduled_activity)
       THEN /\ last' = "OneADay"
            /\ procs' = [procs EXCEPT ![p] = Idle]
       ELSE /\ procs' = [procs EXCEPT ![p].pc = "get"]
            /\ UNCHANGED last
    /\ UNCHANGED <<config, signups>>

\* lines 366-368: EighthSignup.objects.get
Get(p) ==
    /\ procs[p].pc = "get"
    /\ LET found == Existing(procs[p].user, procs[p].scheduled_activity)
       IN  IF Cardinality(found) > 1
           THEN /\ last' = "MultipleObjectsReturned"
                /\ procs' = [procs EXCEPT ![p] = Idle]
           ELSE IF Cardinality(found) = 1
           THEN /\ procs' = [procs EXCEPT ![p].pc = "save",
                                          ![p].found = <<(CHOOSE r \in found : TRUE).id>>]
                /\ UNCHANGED last
           ELSE /\ procs' = [procs EXCEPT ![p].pc = "create"]
                /\ UNCHANGED last
    /\ UNCHANGED <<config, signups>>

\* lines 369-370: existing_signup.save()
SaveExisting(p) ==
    /\ procs[p].pc = "save"
    /\ LET user == procs[p].user
           s == procs[p].scheduled_activity
           id == procs[p].found[1]
       IN  IF Duplicate(signups, id, user, s)
           THEN /\ last' = "IntegrityError"
                /\ UNCHANGED signups
           ELSE /\ signups' = Save(signups, id, s)
                /\ last' = IF \E r \in signups : r.id = id /\ r.scheduled_activity = s
                           THEN "resaved" ELSE "repointed"
    /\ procs' = [procs EXCEPT ![p] = Idle]
    /\ UNCHANGED config

\* lines 371-374: EighthSignup.objects.create
CreateNew(p) ==
    /\ procs[p].pc = "create"
    /\ LET user == procs[p].user
           s == procs[p].scheduled_activity
           id == NewId(signups, user, s)
       IN  IF Duplicate(signups, id, user, s)
           THEN /\ last' = "IntegrityError"
                /\ UNCHANGED signups
           ELSE /\ signups' = Create(signups, id, user, s)
                /\ last' = "created"
    /\ procs' = [procs EXCEPT ![p] = Idle]
    /\ UNCHANGED config

NextConcurrent ==
    \E p \in Procs :
        \/ \E user \in Students, s \in ConcurrentOccurrences,
              request \in Requests, force \in BOOLEAN :
              \E t \in Readings(user, s, request, force) :
                  Begin(p, user, s, request, force, t)
        \/ StickyQuery(p)
        \/ OneADayQuery(p)
        \/ Get(p)
        \/ SaveExisting(p)
        \/ CreateNew(p)

SpecConcurrent == InitConcurrent /\ [][NextConcurrent]_vars

\* The concurrent program when no call is forced.
NextConcurrentNoForce ==
    \E p \in Procs :
        \/ \E user \in Students, s \in ConcurrentOccurrences, request \in Requests :
              \E t \in Readings(user, s, request, FALSE) :
                  /\ ~Forced(request, FALSE)
                  /\ Begin(p, user, s, request, FALSE, t)
        \/ StickyQuery(p)
        \/ OneADayQuery(p)
        \/ Get(p)
        \/ SaveExisting(p)
        \/ CreateNew(p)

SpecConcurrentNoForce == InitConcurrent /\ [][NextConcurrentNoForce]_vars

----------------------------------------------------------------------------
(* The blocks: EighthBlockManager and the neighbours of an EighthBlock.    *)
(* A block is keyed by <<date, block_letter>>, which unique_together       *)
(* makes a key; a queryset is the sequence of the keys of its rows.        *)

\* the dates and letters of the blocks that are saved
BlockDates == FirstDate .. (FirstDate + 2)
Letters == {"a", "A", "B"}
\* the order of block_letter in the table
LetterRank == [A |-> 1, B |-> 2, a |-> 3]
\* letter.capitalize()
Capitalize == [A |-> "A", B |-> "B", a |-> "A"]

\* the quantity argument of next_blocks and previous_blocks is drawn from
\* -1 .. MaxQuantity
MaxQuantity == 2
Quantities == (-1) .. MaxQuantity

\* now.hour < 17
SameDayBeforeHour == 17
\* what datetime.datetime.now() may return when the blocks are asked for:
\* 00:00, 16:59, 17:00 and 17:01 of the first two dates
BlockTimes ==
    {Midnight(d) + m : d \in {FirstDate, FirstDate + 1},
                       m \in {0, SameDayBeforeHour * 60 - 1, SameDayBeforeHour * 60,
                              SameDayBeforeHour * 60 + 1}}

\* now.hour
hour(now) == (now % MinutesPerDay) \div 60
\* now.replace(hour=0, minute=0, second=0, microsecond=0)
replace(now) == now - (now % MinutesPerDay)
\* the value a DateField lookup compares with when it is given a datetime:
\* the date of the datetime
to_date(now) == now \div MinutesPerDay

\* the (date, block_letter) order of the rows with keys x and y
Precedes(x, y) ==
    \/ block[x].date < block[y].date
    \/ /\ block[x].date = block[y].date
       /\ LetterRank[block[x].block_letter] < LetterRank[block[y].block_letter]

\* .order_by("date", "block_letter") of the rows with keys in S
RECURSIVE order_by(_)
order_by(S) ==
    IF S = {} THEN <<>>
    ELSE LET first == CHOOSE x \in S : \A y \in S \ {x} : Precedes(x, y)
         IN  <<first>> \o order_by(S \ {first})

\* .order_by("-date", "-block_letter") of the rows with keys in S
RECURSIVE order_by_descending(_)
order_by_descending(S) ==
    IF S = {} THEN <<>>
    ELSE LET first == CHOOSE x \in S : \A y \in S \ {x} : Precedes(y, x)
         IN  <<first>> \o order_by_descending(S \ {first})

\* blocks[:stop]
Slice(blocks, stop) ==
    SubSeq(blocks, 1, IF stop < Len(blocks) THEN stop ELSE Len(blocks))

\* reversed(blocks)
reversed(blocks) == [i \in 1 .. Len(blocks) |-> blocks[Len(blocks) + 1 - i]]

\* EighthBlock.next_blocks
next_blocks(b, quantity) ==
    LET blocks == order_by({x \in DOMAIN block : Precedes(b, x)})
    IN  IF quantity = -1 THEN blocks ELSE Slice(blocks, quantity + 1)

\* previous_blocks without reversed()
previous_blocks_NotReversed(b, quantity) ==
    LET blocks == order_by_descending({x \in DOMAIN block : Precedes(x, b)})
    IN  IF quantity = -1 THEN blocks ELSE Slice(blocks, quantity + 1)

\* EighthBlock.previous_blocks
previous_blocks(b, quantity) ==
    LET blocks == order_by_descending({x \in DOMAIN block : Precedes(x, b)})
    IN  IF quantity = -1 THEN reversed(blocks) ELSE reversed(Slice(blocks, quantity + 1))

\* EighthBlock.get_surrounding_blocks
get_surrounding_blocks(b) ==
    LET next == next_blocks(b, -1)
        prev == previous_blocks(b, -1)
    IN  prev \o <<b>> \o next

\* EighthBlockManager.get_first_upcoming_block: <<>> is None
get_first_upcoming_block(now) ==
    LET now2 == IF hour(now) < SameDayBeforeHour THEN replace(now) ELSE now
        blocks == order_by({x \in DOMAIN block : block[x].date >= to_date(now2)})
    IN  IF Len(blocks) = 0 THEN <<>> ELSE <<blocks[1]>>

\* EighthBlockManager.get_current_blocks
get_current_blocks(now) ==
    LET first_upcoming_block == get_first_upcoming_block(now)
    IN  IF first_upcoming_block = <<>> THEN <<>>
        ELSE get_surrounding_blocks(first_upcoming_block[1])

\* before the first call of the program of the blocks
NoQuery == [call |-> "none", returned |-> <<>>]

InitBlocks ==
    /\ room = <<>>
    /\ activity = <<>>
    /\ block = <<>>
    /\ scheduled = <<>>
    /\ signups = {}
    /\ procs = [p \in Procs |-> Idle]
    /\ last = NoQuery

\* EighthBlock(date=date, block_letter=letter).save() of a new block
SaveBlock(date, letter) ==
    LET b == <<date, Capitalize[letter]>>
    IN  /\ IF b \in DOMAIN block
           THEN /\ last' = [call |-> "IntegrityError", returned |-> <<>>]
                /\ UNCHANGED block
           ELSE /\ block' = [x \in DOMAIN block \cup {b} |->
                               IF x = b
                               THEN [date |-> date, block_letter |-> Capitalize[letter],
                                     locked |-> FALSE]
                               ELSE block[x]]
                /\ last' = [call |-> "save", returned |-> <<b>>]
        /\ UNCHANGED <<room, activity, scheduled, signups, procs>>

NextBlocks(b, quantity) ==
    /\ last' = [call |-> "next_blocks", returned |-> next_blocks(b, quantity)]
    /\ UNCHANGED <<config, signups, procs>>

PreviousBlocks(b, quantity) ==
    /\ last' = [call |-> "previous_blocks", returned |-> previous_blocks(b, quantity)]
    /\ UNCHANGED <<config, signups, procs>>

GetFirstUpcomingBlock(now) ==
    /\ last' = [call |-> "get_first_upcoming_block",
                returned |-> get_first_upcoming_block(now)]
    /\ UNCHANGED <<config, signups, procs>>

GetCurrentBlocks(now) ==
    /\ last' = [call |-> "get_current_blocks", returned |-> get_current_blocks(now)]
    /\ UNCHANGED <<config, signups, procs>>

NextOfBlocks ==
    \/ \E date \in BlockDates, letter \in Letters : SaveBlock(date, letter)
    \/ \E b \in DOMAIN block, quantity \in Quantities : NextBlocks(b, quantity)
    \/ \E b \in DOMAIN block, quantity \in Quantities : PreviousBlocks(b, quantity)
    \/ \E now \in BlockTimes : GetFirstUpcomingBlock(now)
    \/ \E now \in BlockTimes : GetCurrentBlocks(now)

SpecBlocks == InitBlocks /\ [][NextOfBlocks]_vars

----------------------------------------------------------------------------
(* Vocabulary of the properties. *)

\* the signups of a user in a block
SignupsIn(rows, user, b) ==
    {r \in rows : r.user = user /\ scheduled[r.scheduled_activity].block = b}

\* the number of signups of a scheduled activity
Count(rows, s) == Cardinality({r \in rows : r.scheduled_activity = s})

\* a call that is forced: by its force argument, or by an admin's request
\* that carries the force parameter
IsForcedCall(request, force) ==
    \/ force
    \/ /\ request # NoRequest
       /\ request.GET_force
       /\ request.user \in Admins

\* a request whose actor is neither an admin nor the target user
IsForeignRequest(user, request) ==
    /\ request # NoRequest
    /\ request.user # user
    /\ request.user \notin Admins

\* the calls: <<user, scheduled activity, request, force, clock reading>>;
\* a call for an activity that is not presign never reads the clock, and one
\* reading stands for all
Inputs ==
    {c \in Students \X Occurrences \X Requests \X BOOLEAN \X Times :
        \/ activity[scheduled[c[2]].activity].presign
        \/ c[5] = Midnight(FirstDate - PresignDays)}

\* what the call does in the current state: [outcome, rows]
Result(c) == add_user(c[1], c[2], c[3], c[4], c[5])

----------------------------------------------------------------------------
(* C1: after any sequence of add_user calls, run one after the other,      *)
(* every user has at most one signup in every block.                       *)
C1_OneSignupPerUserAndBlock ==
    \A user \in Users, b \in Blocks : Cardinality(SignupsIn(signups, user, b)) <= 1

\* both students are signed up in both blocks, the last call moved a signup
C1_Witness ==
    /\ \A user \in Students, b \in Blocks : Cardinality(SignupsIn(signups, user, b)) = 1
    /\ last = "repointed"

(* C3: a call for scheduled activity Y that passes the checks, for a user  *)
(* who holds a signup for X of the same block, repoints that very row to   *)
(* Y: the number of rows is unchanged, the user leaves X and joins Y.      *)
C3_TransferRepointsTheRow ==
    \A c \in Inputs : \A e \in signups :
        LET user == c[1]
            y == c[2]
            after == Result(c).rows
        IN  (/\ Checks(user, y, c[3], c[4], c[5]) = "ok"
             /\ e.user = user
             /\ scheduled[e.scheduled_activity].block = scheduled[y].block
             /\ e.scheduled_activity # y)
            => /\ Result(c).outcome = "ok"
               /\ after = (signups \ {e}) \cup {[e EXCEPT !.scheduled_activity = y]}
               /\ Cardinality(after) = Cardinality(signups)
               /\ ~\E r \in after : r.user = user
                                    /\ r.scheduled_activity = e.scheduled_activity
               /\ \E r \in after : r.id = e.id /\ r.user = user
                                   /\ r.scheduled_activity = y

\* the last call moved a signup between two scheduled activities of a block
C3_Witness ==
    /\ last = "repointed"
    /\ \E r \in signups : r.scheduled_activity = "x3"
    /\ ~block["b2"].locked

(* C4: when no call is forced and calls run one after the other, a         *)
(* scheduled activity of capacity N >= 0 never has more than N signups.    *)
C4_CapacityRespected ==
    \A s \in Occurrences :
        get_true_capacity(s) >= 0 => Count(signups, s) <= get_true_capacity(s)

\* a scheduled activity of positive capacity is filled and turned a call away
C4_Witness ==
    \E s \in Occurrences :
        /\ get_true_capacity(s) > 0
        /\ Count(signups, s) = get_true_capacity(s)
        /\ last = "ActivityFull"

----------------------------------------------------------------------------
(* The rules of the admission controller as the specification states them. *)

DateOf(s) == block[scheduled[s].block].date

\* the user holds a signup, on the date of s, for a sticky activity
HoldsStickyOnDate(user, s) ==
    \E r \in signups :
        /\ r.user = user
        /\ DateOf(r.scheduled_activity) = DateOf(s)
        /\ activity[scheduled[r.scheduled_activity].activity].sticky

\* the user holds a signup for the activity of s in another block of its date
HoldsActivityInOtherBlock(user, s) ==
    \E r \in signups :
        /\ r.user = user
        /\ DateOf(r.scheduled_activity) = DateOf(s)
        /\ scheduled[r.scheduled_activity].block # scheduled[s].block
        /\ scheduled[r.scheduled_activity].activity = scheduled[s].activity

\* the order of the checks; Presign is the code's name of PresignTooEarly
RuleOrder == <<"SignupForbidden", "BlockLocked", "ScheduledActivityCancelled",
               "ActivityDeleted", "ActivityFull", "Presign", "Sticky", "OneADay">>

\* the rules the call violates
Violated(c) ==
    LET user == c[1]
        s == c[2]
        a == scheduled[s].activity
    IN  {rule \in {RuleOrder[i] : i \in DOMAIN RuleOrder} :
           \/ rule = "SignupForbidden" /\ IsForeignRequest(user, c[3])
           \/ rule = "BlockLocked" /\ block[scheduled[s].block].locked
           \/ rule = "ScheduledActivityCancelled" /\ scheduled[s].cancelled
           \/ rule = "ActivityDeleted" /\ activity[a].deleted
           \/ rule = "ActivityFull" /\ get_true_capacity(s) # -1
                                   /\ Count(signups, s) >= get_true_capacity(s)
           \/ rule = "Presign" /\ activity[a].presign
                               /\ c[5] < Midnight(DateOf(s)) - PresignDays * MinutesPerDay
           \/ rule = "Sticky" /\ HoldsStickyOnDate(user, s)
           \/ rule = "OneADay" /\ activity[a].one_a_day
                               /\ HoldsActivityInOtherBlock(user, s)}

\* the first rule the call violates, or "ok"
FirstViolated(c) ==
    IF Violated(c) = {} THEN "ok"
    ELSE RuleOrder[CHOOSE i \in DOMAIN RuleOrder :
                      /\ RuleOrder[i] \in Violated(c)
                      /\ \A j \in 1 .. (i - 1) : RuleOrder[j] \notin Violated(c)]

NamedFailures == {RuleOrder[i] : i \in DOMAIN RuleOrder}

----------------------------------------------------------------------------
(* C5: a call that is not forced fails with Sticky whenever the user holds *)
(* a signup for a sticky activity on the date of the requested block, in   *)
(* that block or another one (and no earlier check fails).                 *)
C5_StickyRejects ==
    \A c \in Inputs :
        (~IsForcedCall(c[3], c[4]) /\ FirstViolated(c) = "Sticky")
        => Result(c).outcome = "Sticky"

(* C6: a call that is not forced, for a one-a-day activity, fails with     *)
(* OneADay whenever the user holds a signup for the same activity in       *)
(* another block of the same date (and no earlier check fails).            *)
C6_OneADayRejects ==
    \A c \in Inputs :
        (~IsForcedCall(c[3], c[4]) /\ FirstViolated(c) = "OneADay")
        => Result(c).outcome = "OneADay"

(* C7: a forced call succeeds in every reachable state, whatever rules it  *)
(* violates, and leaves the user with exactly one signup in the block,     *)
(* for the requested scheduled activity.                                   *)
C7_ForcedCallSucceeds ==
    \A c \in Inputs :
        IsForcedCall(c[3], c[4])
        => /\ Result(c).outcome = "ok"
           /\ \E r \in Result(c).rows :
                 /\ r.scheduled_activity = c[2]
                 /\ SignupsIn(Result(c).rows, c[1], scheduled[c[2]].block) = {r}

\* the only signup was created in x3, which is locked, cancelled, deleted,
\* presign and full: only a forced call creates it
C7_Witness ==
    /\ block["b2"].locked
    /\ scheduled["x3"].cancelled
    /\ activity["a2"].deleted
    /\ activity["a2"].presign
    /\ get_true_capacity("x3") = 0
    /\ Cardinality(signups) = 1
    /\ \E r \in signups : r.scheduled_activity = "x3"
    /\ last = "created"

(* C8: a call that is not forced and violates rules raises the error of    *)
(* the first violated rule, in the order SignupForbidden, BlockLocked,     *)
(* ScheduledActivityCancelled, ActivityDeleted, ActivityFull,              *)
(* PresignTooEarly, Sticky, OneADay.                                       *)
C8_FirstViolatedRuleIsRaised ==
    \A c \in Inputs :
        (~IsForcedCall(c[3], c[4]) /\ Violated(c) # {})
        => Result(c).outcome = FirstViolated(c)

(* C9: a call that ends in a named failure leaves the signups as they      *)
(* were; a call that is not forced, for a locked block, a cancelled        *)
(* scheduled activity or a deleted activity, is rejected without a change, *)
(* full or not.                                                            *)
C9_FailureChangesNothing ==
    \A c \in Inputs :
        LET s == c[2]
            res == Result(c)
        IN  /\ res.outcome \in NamedFailures => res.rows = signups
            /\ (/\ ~IsForcedCall(c[3], c[4])
                /\ \/ block[scheduled[s].block].locked
                   \/ scheduled[s].cancelled
                   \/ activity[scheduled[s].activity].deleted)
               => /\ res.outcome \in {"SignupForbidden", "BlockLocked",
                                      "ScheduledActivityCancelled", "ActivityDeleted"}
                  /\ res.rows = signups

\* x3, cancelled and not full, turned a call away while signups exist
C9_Witness ==
    /\ last = "ScheduledActivityCancelled"
    /\ ~block["b2"].locked
    /\ Count(signups, "x3") < get_true_capacity("x3")
    /\ signups # {}

(* C10: a request whose actor is neither an admin nor the target user      *)
(* fails with SignupForbidden and changes no signup, whether or not it     *)
(* carries the force parameter.                                            *)
C10_ForeignRequestForbidden ==
    \A c \in Inputs :
        IsForeignRequest(c[1], c[3])
        => /\ Result(c).outcome = "SignupForbidden"
           /\ Result(c).rows = signups

(* C10, amended: when the force argument of the call is false, a request   *)
(* whose actor is neither an admin nor the target user fails with          *)
(* SignupForbidden and changes no signup, whether or not it carries the    *)
(* force parameter.                                                        *)
C10_ForeignRequestForbiddenUnlessForceArgument ==
    \A c \in Inputs :
        (IsForeignRequest(c[1], c[3]) /\ ~c[4])
        => /\ Result(c).outcome = "SignupForbidden"
           /\ Result(c).rows = signups

\* a call was turned away as forbidden while the target user holds a signup
C10_Witness ==
    /\ last = "SignupForbidden"
    /\ \E r \in signups : r.user = "u1"

(* C2: when two calls for the same user and the same block run            *)
(* concurrently, for the same or for two scheduled activities of the       *)
(* block, with their lookups and writes interleaved in any order, the      *)
(* table never holds two rows of that user in that block.                  *)
C2_NoDuplicateUnderRace ==
    \A r1, r2 \in signups :
        (/\ r1.user = r2.user
         /\ scheduled[r1.scheduled_activity].block
              = scheduled[r2.scheduled_activity].block)
        => r1 = r2

----------------------------------------------------------------------------
(* C11: a call repeated with the same arguments, nothing else happening in *)
(* between, changes nothing.  A call that succeeds leaves the user with    *)
(* exactly one signup in the block, for the requested scheduled activity;  *)
(* and in every state where the user's only signup of the block is for     *)
(* the requested scheduled activity, as after that call, the same call     *)
(* succeeds or raises a named failure (ActivityFull when the first call    *)
(* filled the scheduled activity) and leaves the table as it is.           *)
C11_RepeatedCallChangesNothing ==
    \A c \in Inputs :
        LET user == c[1]
            s == c[2]
            b == scheduled[s].block
            res == Result(c)
        IN  /\ res.outcome = "ok"
               => \E r \in res.rows :
                     /\ r.scheduled_activity = s
                     /\ SignupsIn(res.rows, user, b) = {r}
            /\ (\E r \in signups :
                     /\ r.scheduled_activity = s
                     /\ SignupsIn(signups, user, b) = {r})
               => /\ res.rows = signups
                  /\ res.outcome \in {"ok"} \cup NamedFailures

\* the last call created the signup that fills x3, which is open: the same
\* call again, not forced, raises ActivityFull
C11_Witness ==
    /\ last = "created"
    /\ get_true_capacity("x3") = 1
    /\ Count(signups, "x3") = 1
    /\ is_full("x3")
    /\ ~block["b2"].locked
    /\ ~scheduled["x3"].cancelled
    /\ ~activity["a2"].deleted
    /\ \E c \in Inputs : /\ c[2] = "x3"
                         /\ \E r \in signups : r.user = c[1] /\ r.scheduled_activity = "x3"
                         /\ Result(c).outcome = "ActivityFull"

(* C12: a call for user U and a scheduled activity of block B that         *)
(* succeeds creates or repoints one row, the signup of U in B: the rows of *)
(* the other users and the rows of U in the other blocks stay as they are, *)
(* and no step of the program changes a room, an activity, a block or a    *)
(* scheduled activity.                                                     *)
C12_Frame ==
    \A c \in Inputs :
        LET user == c[1]
            b == scheduled[c[2]].block
            after == Result(c).rows
        IN  Result(c).outcome = "ok"
            => /\ after \ SignupsIn(after, user, b) = signups \ SignupsIn(signups, user, b)
               /\ Cardinality(SignupsIn(after, user, b)) = 1
               /\ Cardinality(SignupsIn(signups, user, b)) <= 1
               /\ \A r \in SignupsIn(signups, user, b) :
                     \E q \in SignupsIn(after, user, b) : q.id = r.id

C12_OnlyTheSignupOfUserAndBlock == [](C12_Frame) /\ [][config' = config]_vars

\* both students hold signups in both blocks and the last call moved one
\* of them into x3
C12_Witness ==
    /\ last = "repointed"
    /\ Cardinality(signups) = 4
    /\ Count(signups, "x3") = 1

(* C13: no add_user call ends with the uniqueness error of the table: when *)
(* two concurrent calls for the same user reach the create step and the    *)
(* table rejects the second insert, the call catches the error.            *)
C13_NoUnhandledUniquenessError == last # "IntegrityError"

----------------------------------------------------------------------------
(* The neighbours of a block as the specification states them. *)

\* the blocks strictly after b, nearest first
After(b) == order_by({x \in DOMAIN block : Precedes(b, x)})

\* the blocks strictly before b, in ascending order: nearest last
Before(b) == order_by({x \in DOMAIN block : Precedes(x, b)})

\* the n first blocks of a sequence, or all of them
FirstN(blocks, n) == SubSeq(blocks, 1, IF n < Len(blocks) THEN n ELSE Len(blocks))

\* the n last blocks of a sequence, or all of them
LastN(blocks, n) ==
    SubSeq(blocks, (IF n < Len(blocks) THEN Len(blocks) - n ELSE 0) + 1, Len(blocks))

(* C14: next_blocks(b, n), n >= 0, returns at most n blocks, the n nearest *)
(* blocks strictly after b in ascending (date, letter) order, and          *)
(* previous_blocks(b, n) at most n blocks, the n nearest blocks strictly   *)
(* before b in ascending order; with -1 they return all such blocks.       *)
C14_AtMostQuantityNearest ==
    \A b \in DOMAIN block, n \in Quantities :
        IF n = -1
        THEN /\ next_blocks(b, n) = After(b)
             /\ previous_blocks(b, n) = Before(b)
        ELSE /\ Len(next_blocks(b, n)) <= n
             /\ next_blocks(b, n) = FirstN(After(b), n)
             /\ Len(previous_blocks(b, n)) <= n
             /\ previous_blocks(b, n) = LastN(Before(b), n)

\* the time of day, in minutes after midnight, of day d
At(d, h, m) == Midnight(d) + h * 60 + m

(* C15: get_first_upcoming_block returns at 16:59 of a day D what it       *)
(* returns at 00:00 of D, blocks of D included; at 17:01 of D it returns   *)
(* no block of D but the earliest block of D + 1 or later; it returns None *)
(* when there is no such block.                                            *)
C15_SameDayUntilFivePM ==
    \A d \in {FirstDate, FirstDate + 1} :
        LET morning == get_first_upcoming_block(At(d, 0, 0))
            afternoon == get_first_upcoming_block(At(d, 16, 59))
            evening == get_first_upcoming_block(At(d, 17, 1))
            today == {x \in DOMAIN block : block[x].date >= d}
            later == {x \in DOMAIN block : block[x].date >= d + 1}
        IN  /\ afternoon = morning
            /\ morning = (IF today = {} THEN <<>> ELSE <<order_by(today)[1]>>)
            /\ evening = (IF later = {} THEN <<>> ELSE <<order_by(later)[1]>>)

(* C16: get_current_blocks returns the empty list when there is no         *)
(* upcoming block; otherwise it returns every block of the table exactly   *)
(* once, in ascending (date, letter) order, whether or not the upcoming    *)
(* block has earlier or later neighbours.                                  *)
C16_AllBlocksOnceInOrder ==
    \A now \in BlockTimes :
        LET returned == get_current_blocks(now)
        IN  IF get_first_upcoming_block(now) = <<>>
            THEN returned = <<>>
            ELSE /\ Len(returned) = Cardinality(DOMAIN block)
                 /\ {returned[i] : i \in 1 .. Len(returned)} = DOMAIN block
                 /\ \A i, j \in 1 .. Len(returned) :
                       i < j => Precedes(returned[i], returned[j])

\* the last call returned the blocks around an upcoming block that has an
\* earlier and a later neighbour
C16_Witness ==
    /\ last.call = "get_current_blocks"
    /\ Len(last.returned) >= 4
    /\ \E now \in BlockTimes :
          /\ get_current_blocks(now) = last.returned
          /\ get_first_upcoming_block(now) = <<last.returned[3]>>

----------------------------------------------------------------------------
\* the sum of the capacities of the rooms of an activity
RoomSum(a) ==
    (IF "r1" \in activity[a].rooms THEN room["r1"].capacity ELSE 0)
    + (IF "r2" \in activity[a].rooms THEN room["r2"].capacity ELSE 0)

\* the effective capacity of a scheduled activity: its override when it is
\* set, else the capacity of its activity
Effective(s) ==
    IF scheduled[s].capacity # NoCapacity THEN scheduled[s].capacity[1]
    ELSE IF activity[scheduled[s].activity].rooms = {} THEN -1
    ELSE RoomSum(scheduled[s].activity)

(* C17: is_full is false when the effective capacity is -1 and otherwise   *)
(* true exactly when the scheduled activity has at least that many         *)
(* signups; the effective capacity is the override when it is set, -1 and  *)
(* 0 included, and otherwise the sum of the capacities of the rooms of the *)
(* activity, or -1 when the activity has no rooms.                         *)
C17_IsFullAgainstEffectiveCapacity ==
    \A s \in Occurrences :
        /\ get_true_capacity(s) = Effective(s)
        /\ Effective(s) = -1 => ~is_full(s)
        /\ Effective(s) # -1 => (is_full(s) <=> Count(signups, s) >= Effective(s))

\* x3 overrides the capacity 1 of its activity with 0 and is full, with the
\* signups forced calls created
C17_Witness ==
    /\ scheduled["x3"].capacity = <<0>>
    /\ capacity("a2") = 1
    /\ Count(signups, "x3") = 2
    /\ is_full("x3")
    /\ ~is_full("x2")
    /\ last = "created"

(* C19: when every room has capacity -1 or a capacity >= 0, the capacity   *)
(* of an activity is -1 or >= 0, never below -1; so a scheduled activity   *)
(* with no override and no signups is full only when its capacity is 0.    *)
C19_ActivityCapacityIsUnlimitedOrSeats ==
    /\ \A a \in Activities :
          (\A r \in activity[a].rooms : room[r].capacity >= -1) => capacity(a) >= -1
    /\ \A s \in Occurrences :
          (/\ \A r \in activity[scheduled[s].activity].rooms : room[r].capacity >= -1
           /\ scheduled[s].capacity = NoCapacity
           /\ Count(signups, s) = 0
           /\ is_full(s))
          => get_true_capacity(s) = 0

----------------------------------------------------------------------------
\* clock readings around the start of the presign period of the blocks of
\* FirstDate: long before, one minute before, at, one minute after, and at
\* the midnight of FirstDate
PresignTimes ==
    {Midnight(0),
     Midnight(FirstDate - PresignDays) - 1,
     Midnight(FirstDate - PresignDays),
     Midnight(FirstDate - PresignDays) + 1,
     Midnight(FirstDate)}

\* the checks before the presign check
FirstFiveRules == {RuleOrder[i] : i \in 1 .. 5}

(* C18: a call that is not forced and passes the checks 1 to 5 is rejected *)
(* as too early exactly when the activity is presign and the clock reads   *)
(* strictly less than the midnight of the date of the block minus two      *)
(* days: not at that instant or later, and never when the activity is not  *)
(* presign.                                                                *)
C18_TooEarlyStrictlyBeforeTwoDays ==
    \A user \in Students, s \in Occurrences, request \in Requests, t \in PresignTimes :
        LET c == <<user, s, request, FALSE, t>>
        IN  (/\ ~IsForcedCall(request, FALSE)
             /\ Violated(c) \cap FirstFiveRules = {})
            => (Result(c).outcome = "Presign"
                <=> /\ activity[scheduled[s].activity].presign
                    /\ t < Midnight(DateOf(s) - PresignDays))

\* x3, presign and open, turned a call away as too early, and the same call
\* at the start of the presign period is not turned away for that
C18_Witness ==
    /\ last = "Presign"
    /\ activity["a2"].presign
    /\ ~block["b2"].locked
    /\ ~scheduled["x3"].cancelled
    /\ ~activity["a2"].deleted
    /\ ~is_full("x3")
    /\ \E user \in Students :
          /\ add_user(user, "x3", NoRequest, FALSE,
                      Midnight(FirstDate - PresignDays) - 1).outcome = "Presign"
          /\ add_user(user, "x3", NoRequest, FALSE,
                      Midnight(FirstDate - PresignDays)).outcome = "ok"

----------------------------------------------------------------------------
\* the calls in progress: past their checks, before the end of their write
InFlight == {p \in Procs : procs[p].pc # "idle"}

\* no two calls overlap
NoOverlap == Cardinality(InFlight) <= 1

\* a scheduled activity of capacity N >= 0 has at most N + extra signups
WithinCapacityPlus(extra) ==
    \A s \in Occurrences :
        get_true_capacity(s) >= 0 => Count(signups, s) <= get_true_capacity(s) + extra

(* C20: when the calls of k processes, none forced, run concurrently, a    *)
(* scheduled activity of capacity N >= 0 has more than N signups only in   *)
(* runs where two calls overlap, and never more than N + k - 1.            *)
C20_OvershootBoundedByOverlap ==
    /\ []NoOverlap => []WithinCapacityPlus(0)
    /\ []WithinCapacityPlus(Cardinality(Procs) - 1)

\* both students passed the capacity check of x3, of capacity 1, before
\* either was written: x3 has 2 signups
C20_Witness ==
    /\ get_true_capacity("x3") = 1
    /\ Count(signups, "x3") = 1 + Cardinality(Procs) - 1
    /\ last = "created"
    /\ InFlight = {}

====
